---- MODULE Spec2Model ----
(***************************************************************************)
(* A model of reddit_bot1.py: the RedditBot class.                         *)
(*                                                                         *)
(*   generate_content          bounded retry of the remote generation      *)
(*                             call, with the local fallback on exhaustion *)
(*   generate_fallback_content the templated fallback texts                *)
(*   generate_contextual_comment  keyword-driven choice of a canned reply  *)
(*   create_comments           the batch comment job                       *)
(*   run                       the main polling loop                       *)
(*                                                                         *)
(* Strings whose characters the code inspects (prompts, post titles) are   *)
(* sequences of one-character strings.  Texts the code only passes on      *)
(* (the templates, the remote contents) are opaque strings.                *)
(***************************************************************************)
EXTENDS Integers, Sequences, FiniteSets, TLC

\***************************************************************************
\* Bounds of the model
\***************************************************************************
\* largest value of the retries parameter of generate_content that is tried
MaxRetries == 3
\* number of fragments a generated post title is built from
MaxFrags == 3
\* number of posts that ever exist in the comment subreddit
MaxPosts == 4
\* number of create_comments runs
MaxRuns == 2
\* number of iterations of the main loop of run
MaxIterations == 6

\***************************************************************************
\* Character strings
\***************************************************************************
UpperCase == <<"A","B","C","D","E","F","G","H","I","J","K","L","M",
               "N","O","P","Q","R","S","T","U","V","W","X","Y","Z">>
LowerCase == <<"a","b","c","d","e","f","g","h","i","j","k","l","m",
               "n","o","p","q","r","s","t","u","v","w","x","y","z">>

\* str.lower() on one character
LowerChar(c) ==
    IF \E i \in 1..Len(UpperCase) : UpperCase[i] = c
    THEN LowerCase[CHOOSE i \in 1..Len(UpperCase) : UpperCase[i] = c]
    ELSE c

\* str.lower()
Lower(s) == [i \in 1..Len(s) |-> LowerChar(s[i])]

\* the Python test "sub in s" on strings
Contains(sub, s) ==
    \E i \in 0..(Len(s) - Len(sub)) :
        \A j \in 1..Len(sub) : s[i + j] = sub[j]

\* the prompt of test_connection
TestPrompt ==
    <<"W","r","i","t","e"," ","a"," ","s","h","o","r","t"," ","t","e","s","t"," ","m","e","s","s","a","g","e",".">>

\* the prompt of create_post
PostPrompt ==
    <<"W","r","i","t","e"," ","a","n"," ","e","n","g","a","g","i","n","g"," ","R","e","d","d","i","t"," ","p","o","s","t"," ","a","b","o","u","t"," ","m","a","c","h","i","n","e"," ","l","e","a","r","n","i","n","g"," ","o","r"," ","A","I"," ","t","e","c","h","n","o","l","o","g","y",".">>

\* the constant part of the prompt of create_comments
CommentPromptPrefix ==
    <<"W","r","i","t","e"," ","a"," ","h","e","l","p","f","u","l"," ","c","o","m","m","e","n","t"," ","f","o","r"," ","t","h","i","s"," ","p","o","s","t"," ","t","i","t","l","e",":"," ">>

\* f"Write a helpful comment for this post title: {post.title}"
CommentPrompt(title) == CommentPromptPrefix \o title

\* prompts of other callers of generate_content
ShoutedPrompt == <<"D","r","a","f","t"," ","a"," ","P","O","S","T">>

\* the word generate_content looks for in the prompt
PostWord == <<"p","o","s","t">>

\* titles of the posts of the comment subreddit, by post number
Titles ==
    << <<"I"," ","n","e","e","d"," ","h","e","l","p"," ","w","i","t","h"," ","m","y"," ","p","r","o","j","e","c","t">>,
       <<"H","o","w"," ","t","o"," ","l","e","a","r","n"," ","M","L">>,
       <<"R","a","n","d","o","m"," ","t","o","p","i","c">>,
       <<"M","y"," ","P","R","O","J","E","C","T"," ","l","o","g">> >>

Title(p) == Titles[((p - 1) % Len(Titles)) + 1]

\***************************************************************************
\* Texts
\***************************************************************************
PostTemplate == "# Today's AI and Technology Update"
GenericComment == "Thank you for sharing this interesting perspective!"
LearnResponse == "Great learning resource!"
HelpResponse == "Thanks for reaching out to the community!"
ProjectResponse == "Exciting project!"
DefaultResponse == "Thanks for sharing this interesting topic!"

\* contents the remote generation service can answer with
RemoteA == "remote text a"
RemoteB == "remote text b"
RemoteUnable == "Unable to generate content right now"

RemoteTexts == {RemoteA, RemoteB, RemoteUnable}

\* the test: "Unable to generate content" in comment
HasUnableMarker(text) == text \in {RemoteUnable}

\* if content, changed to accept every content
IsTruthy_always(content) == TRUE

\* truthiness of the content of a response: if content
IsTruthy(content) == content # ""

\* truthiness of a title: if post_title (None and the empty string are falsy)
NoTitle == <<>>

TitleGiven(post_title) == Len(post_title) > 0

\***************************************************************************
\* generate_contextual_comment and generate_fallback_content
\***************************************************************************
\* the responses dictionary with project declared before help
Responses_reordered ==
    << [keyword |-> <<"l","e","a","r","n">>, response |-> LearnResponse],
       [keyword |-> <<"p","r","o","j","e","c","t">>, response |-> ProjectResponse],
       [keyword |-> <<"h","e","l","p">>, response |-> HelpResponse] >>

\* the responses dictionary, in insertion order
Responses ==
    << [keyword |-> <<"l","e","a","r","n">>, response |-> LearnResponse],
       [keyword |-> <<"h","e","l","p">>, response |-> HelpResponse],
       [keyword |-> <<"p","r","o","j","e","c","t">>, response |-> ProjectResponse] >>

\* for keyword, response in responses.items(): if keyword in title_lower
RECURSIVE ScanResponses(_, _)
ScanResponses(i, title_lower) ==
    IF i > Len(Responses)
    THEN DefaultResponse
    ELSE IF Contains(Responses[i].keyword, title_lower)
         THEN Responses[i].response
         ELSE ScanResponses(i + 1, title_lower)

generate_contextual_comment(post_title) ==
    ScanResponses(1, Lower(post_title))

generate_fallback_content(content_type, post_title) ==
    IF content_type = "post"
    THEN PostTemplate
    ELSE IF TitleGiven(post_title)
         THEN generate_contextual_comment(post_title)
         ELSE GenericComment

\***************************************************************************
\* State
\***************************************************************************
VARIABLES
    \* generate_content: the call in progress
    gpc,          \* "idle", "loop", "sleep", "done"
    prompt,       \* the prompt argument
    retries,      \* the retries argument
    attempt,      \* the loop variable
    outcomes,     \* what the remote service did on each call so far
    events,       \* remote calls, log entries and sleeps of the call, in order
    ret,          \* how the call ended
    \* generate_fallback_content called on its own
    fbArgs,       \* its arguments
    fbText,       \* its result
    \* the comment subreddit
    nposts,       \* posts 1..nposts exist, the highest number is the newest
    saved,        \* posts saved by the bot's account
    replyCount,   \* number of replies of the bot under each post
    lastReply,    \* the latest reply made
    \* create_comments
    cpc,          \* "idle", "loop", "generate", "save", "returned"
    batch,        \* the posts fetched by subreddit.new(limit=3)
    savedAtFetch, \* the posts of the batch whose saved attribute was true
    idx,          \* position in the batch
    attempted,    \* posts of the batch a reply was attempted for
    ccErrors,     \* "Failed to create comments" entries logged by the run
    runs,         \* number of runs started
    \* run: the main loop
    rpc,          \* "poll", "heartbeat", "sleep", "handler", "error_sleep", "exited"
    clock,        \* seconds since the loop was entered
    last_log_time,
    pending,      \* the exception being raised in the current iteration
    loopErrors,   \* "Error in main loop" entries logged
    heartbeats,   \* "Bot is running normally" entries logged
    exitCause     \* why the loop was left

genVars == <<gpc, prompt, retries, attempt, outcomes, events, ret>>
fbVars == <<fbArgs, fbText>>
redditVars == <<nposts, saved, replyCount, lastReply>>
ccVars == <<cpc, batch, savedAtFetch, idx, attempted, ccErrors, runs>>
runVars == <<rpc, clock, last_log_time, pending, loopErrors, heartbeats, exitCause>>
vars == <<genVars, fbVars, redditVars, ccVars, runVars>>

\***************************************************************************
\* generate_content
\***************************************************************************
\* defaults of the parameters retries and delay
DefaultRetries == 3
DefaultDelay == 5

\* JSON bodies are sets of <<key, value>> pairs
Bodies ==
    {{}} \cup {{<<"content", t>>} : t \in {""} \cup RemoteTexts}

\* what one requests.post call can lead to
Outcomes ==
    {[exc |-> "ConnectionError", status |-> 0, decodes |-> FALSE, body |-> {}],
     [exc |-> "none", status |-> 503, decodes |-> TRUE, body |-> {}],
     [exc |-> "none", status |-> 200, decodes |-> FALSE, body |-> {}]}
    \cup {[exc |-> "none", status |-> 200, decodes |-> TRUE, body |-> b] : b \in Bodies}

\* response.json().get(key, default)
JsonGet(body, key, default) ==
    IF \E kv \in body : kv[1] = key
    THEN (CHOOSE kv \in body : kv[1] = key)[2]
    ELSE default

\* the exception raised by requests.post, raise_for_status or json, if any
AttemptException(o) ==
    IF o.exc # "none" THEN o.exc
    ELSE IF o.status >= 400 /\ o.status < 600 THEN "HTTPError"
    ELSE IF ~o.decodes THEN "JSONDecodeError"
    ELSE "none"

\* except Exception, narrowed to the transport errors
IsCaught_transport(e) == e \in {"ConnectionError"}

\* except Exception
IsCaught(e) == e \in {"ConnectionError", "HTTPError", "JSONDecodeError"}

\* for attempt in range(retries), changed to run once more
LoopContinues_inclusive(a, r) == a <= r

\* for attempt in range(retries)
LoopContinues(a, r) == a < r

\* if attempt < retries - 1
SleepsAfter(a, r) == a < r - 1

\* content_type = "post" if "post" in prompt.lower() else "comment"
ContentType(p) == IF Contains(PostWord, Lower(p)) THEN "post" ELSE "comment"

Event(ev, arg) == [ev |-> ev, arg |-> arg]

NoRet == [status |-> "none", text |-> "", origin |-> "none"]

\* entry of generate_content(p, r, DefaultDelay)
GenEnter(p, r) ==
    /\ gpc' = "loop"
    /\ prompt' = p
    /\ retries' = r
    /\ attempt' = 0
    /\ outcomes' = <<>>
    /\ events' = <<>>
    /\ ret' = NoRet

\* one iteration of the loop: the request and what follows it
GenAttempt(o) ==
    /\ gpc = "loop"
    /\ LoopContinues(attempt, retries)
    /\ outcomes' = Append(outcomes, o)
    /\ LET e == AttemptException(o)
           content == JsonGet(o.body, "content", "")
           call == Event("call", attempt + 1)
       IN  IF e # "none"
           THEN IF IsCaught(e)
                THEN /\ events' = events \o <<call, Event("warning", attempt + 1)>>
                     /\ ret' = ret
                     /\ IF SleepsAfter(attempt, retries)
                        THEN gpc' = "sleep" /\ attempt' = attempt
                        ELSE gpc' = "loop" /\ attempt' = attempt + 1
                ELSE /\ events' = Append(events, call)
                     /\ ret' = [status |-> "raised", text |-> "", origin |-> "none"]
                     /\ gpc' = "done"
                     /\ attempt' = attempt
           ELSE IF IsTruthy(content)
                THEN /\ events' = events \o <<call, Event("info", 0)>>
                     /\ ret' = [status |-> "returned", text |-> content, origin |-> "Remote"]
                     /\ gpc' = "done"
                     /\ attempt' = attempt
                ELSE /\ events' = Append(events, call)
                     /\ ret' = ret
                     /\ gpc' = "loop"
                     /\ attempt' = attempt + 1
    /\ UNCHANGED <<prompt, retries>>

\* time.sleep(delay) in the except clause
GenSleep ==
    /\ gpc = "sleep"
    /\ events' = Append(events, Event("sleep", DefaultDelay))
    /\ attempt' = attempt + 1
    /\ gpc' = "loop"
    /\ UNCHANGED <<prompt, retries, outcomes, ret>>

\* after the loop: the fallback
GenFallback ==
    /\ gpc = "loop"
    /\ ~LoopContinues(attempt, retries)
    /\ LET content_type == ContentType(prompt)
           fallback == generate_fallback_content(content_type, NoTitle)
       IN  /\ events' = Append(events, Event("info", 0))
           /\ ret' = [status |-> "returned", text |-> fallback, origin |-> "Fallback"]
    /\ gpc' = "done"
    /\ UNCHANGED <<prompt, retries, attempt, outcomes>>

\***************************************************************************
\* Initial values
\***************************************************************************
GenInit ==
    /\ gpc = "idle"
    /\ prompt = <<>>
    /\ retries = DefaultRetries
    /\ attempt = 0
    /\ outcomes = <<>>
    /\ events = <<>>
    /\ ret = NoRet

NoArgs == [fn |-> "none", content_type |-> "comment", post_title |-> NoTitle]

FbInit ==
    /\ fbArgs = NoArgs
    /\ fbText = ""

NoReply == [post |-> 0, text |-> "", origin |-> "none"]

RedditInit ==
    /\ nposts = 0
    /\ saved = {}
    /\ replyCount = [p \in 1..MaxPosts |-> 0]
    /\ lastReply = NoReply

CcInit ==
    /\ cpc = "idle"
    /\ batch = <<>>
    /\ savedAtFetch = {}
    /\ idx = 1
    /\ attempted = {}
    /\ ccErrors = 0
    /\ runs = 0

RunInit ==
    /\ rpc = "poll"
    /\ clock = 0
    /\ last_log_time = 0
    /\ pending = "none"
    /\ loopErrors = 0
    /\ heartbeats = 0
    /\ exitCause = "none"

\***************************************************************************
\* generate_content called on its own
\***************************************************************************
Prompts ==
    {TestPrompt, PostPrompt, ShoutedPrompt}
    \cup {CommentPrompt(Title(p)) : p \in 1..Len(Titles)}

GenCall ==
    /\ gpc = "idle"
    /\ \E p \in Prompts, r \in 1..MaxRetries : GenEnter(p, r)
    /\ UNCHANGED <<fbVars, redditVars, ccVars, runVars>>

GenAttemptStep ==
    /\ \E o \in Outcomes : GenAttempt(o)
    /\ UNCHANGED <<fbVars, redditVars, ccVars, runVars>>

GenSleepStep ==
    /\ GenSleep
    /\ UNCHANGED <<fbVars, redditVars, ccVars, runVars>>

GenFallbackStep ==
    /\ GenFallback
    /\ UNCHANGED <<fbVars, redditVars, ccVars, runVars>>

\* the caller takes the result
GenReturn ==
    /\ gpc = "done"
    /\ gpc' = "idle"
    /\ UNCHANGED <<prompt, retries, attempt, outcomes, events, ret>>
    /\ UNCHANGED <<fbVars, redditVars, ccVars, runVars>>

InitGen == GenInit /\ FbInit /\ RedditInit /\ CcInit /\ RunInit

NextGen ==
    \/ GenCall
    \/ GenAttemptStep
    \/ GenSleepStep
    \/ GenFallbackStep
    \/ GenReturn

SpecGen == InitGen /\ [][NextGen]_vars

\* a call in progress goes on: the interpreter executes the next statement
SpecGenFair ==
    /\ SpecGen
    /\ WF_vars(GenAttemptStep)
    /\ WF_vars(GenSleepStep)
    /\ WF_vars(GenFallbackStep)

\***************************************************************************
\* generate_fallback_content and generate_contextual_comment on their own
\***************************************************************************
Fragments ==
    { <<"L","e","a","r","n">>, <<"h","e","l">>, <<"p">>, <<"H","E","L","P">>,
      <<"P","r","o">>, <<"j","e","c","t">>, <<"p","r","o","j","e","c","t">>,
      <<" ">> }

RECURSIVE HintsOfLen(_)
HintsOfLen(n) ==
    IF n = 0
    THEN {<<>>}
    ELSE {h \o f : h \in HintsOfLen(n - 1), f \in Fragments}

Hints ==
    UNION {HintsOfLen(n) : n \in 0..MaxFrags}
    \cup {Titles[i] : i \in 1..Len(Titles)}

InitFb ==
    /\ GenInit /\ RedditInit /\ CcInit /\ RunInit
    /\ fbText = ""
    /\ \/ fbArgs \in [fn : {"generate_contextual_comment"},
                      content_type : {"comment"},
                      post_title : Hints]
       \/ fbArgs \in [fn : {"generate_fallback_content"},
                      content_type : {"post", "comment"},
                      post_title : {NoTitle} \cup {Titles[i] : i \in 1..Len(Titles)}]

ContextualCall ==
    /\ fbArgs.fn = "generate_contextual_comment"
    /\ fbText = ""
    /\ fbText' = generate_contextual_comment(fbArgs.post_title)
    /\ UNCHANGED <<fbArgs, genVars, redditVars, ccVars, runVars>>

FallbackCall ==
    /\ fbArgs.fn = "generate_fallback_content"
    /\ fbText = ""
    /\ fbText' = generate_fallback_content(fbArgs.content_type, fbArgs.post_title)
    /\ UNCHANGED <<fbArgs, genVars, redditVars, ccVars, runVars>>

NextFb ==
    \/ ContextualCall
    \/ FallbackCall

SpecFb == InitFb /\ [][NextFb]_vars

\***************************************************************************
\* Properties of generate_content
\***************************************************************************
\* an attempt succeeded: no transport error, a success status, and a
\* non-empty content field in the decoded answer
AttemptSucceeded(o) ==
    /\ o.exc = "none"
    /\ o.status \in 200..299
    /\ o.decodes
    /\ \E kv \in o.body : kv[1] = "content" /\ kv[2] # ""

ContentOf(o) == (CHOOSE kv \in o.body : kv[1] = "content")[2]

SomeAttemptSucceeded == \E i \in 1..Len(outcomes) : AttemptSucceeded(outcomes[i])

AllAttemptsFailed ==
    /\ Len(outcomes) = retries
    /\ \A i \in 1..Len(outcomes) : ~AttemptSucceeded(outcomes[i])

CountEvents(ev) == Cardinality({k \in 1..Len(events) : events[k].ev = ev})

FallbackTexts ==
    {PostTemplate, GenericComment, LearnResponse, HelpResponse,
     ProjectResponse, DefaultResponse}

\* C1: a finished call of generate_content has returned fallback text if and
\* only if every one of the retries attempts failed, and remote text if and
\* only if some attempt succeeded; the remote text returned is exactly the
\* content of the succeeding attempt.
C1_OriginMatchesAttempts ==
    gpc = "done" =>
        /\ ret.status = "returned"
        /\ ret.origin \in {"Remote", "Fallback"}
        /\ (ret.origin = "Fallback") <=> AllAttemptsFailed
        /\ (ret.origin = "Remote") <=> SomeAttemptSucceeded
        /\ ret.origin = "Fallback" => ret.text \in FallbackTexts
        /\ ret.origin = "Remote" =>
               \A i \in 1..Len(outcomes) :
                   AttemptSucceeded(outcomes[i]) => ret.text = ContentOf(outcomes[i])

\* a call that failed once and then succeeded has returned the remote text
C1_Witness ==
    /\ gpc = "done"
    /\ Len(outcomes) = 2
    /\ ~AttemptSucceeded(outcomes[1])
    /\ AttemptSucceeded(outcomes[2])
    /\ ret.origin = "Remote"
    /\ ret.text = RemoteB

\* C2: a call of generate_content makes at most retries remote calls, and
\* makes none after the first attempt that succeeds.
C2_BoundedCalls ==
    /\ CountEvents("call") <= retries
    /\ CountEvents("call") = Len(outcomes)
    /\ \A i \in 1..Len(outcomes) :
           AttemptSucceeded(outcomes[i]) => i = Len(outcomes)
    /\ SomeAttemptSucceeded => gpc \notin {"loop", "sleep"}

\* a call that used every attempt, the last one with success
C2_Witness ==
    /\ gpc = "done"
    /\ retries >= 2
    /\ CountEvents("call") = retries
    /\ AttemptSucceeded(outcomes[retries])

\* the next remote call after position k of events, if any, is preceded by a sleep
SleepBeforeNextCall(k) ==
    \A m \in (k + 1)..Len(events) :
        (events[m].ev = "call" /\ \A n \in (k + 1)..(m - 1) : events[n].ev # "call")
            => \E n \in (k + 1)..(m - 1) :
                   events[n].ev = "sleep" /\ events[n].arg = DefaultDelay

\* C3: after every failed attempt that is followed by another remote call,
\* the caller sleeps for delay before that call, whatever the kind of the
\* failure; there is no sleep after the last attempt.
C3_SleepAfterEveryFailure ==
    /\ \A k \in 1..Len(events) :
           events[k].ev = "call" => SleepBeforeNextCall(k)
    /\ \A k \in 1..Len(events) :
           events[k].ev = "sleep" =>
               Cardinality({n \in 1..k : events[n].ev = "call"}) < retries

\* C4: a finished call has logged as many warnings as attempts failed, of
\* any kind of failure, and exactly one info entry.
C4_LogEntries ==
    gpc = "done" =>
        /\ CountEvents("warning") =
               Cardinality({i \in 1..Len(outcomes) : ~AttemptSucceeded(outcomes[i])})
        /\ CountEvents("info") = 1

\* C5: generate_content never raises to its caller: every call ends, by
\* returning a non-empty text, and the text is fallback content when every
\* attempt failed.
C5_NeverRaises ==
    /\ [](/\ ret.status # "raised"
          /\ gpc = "done" =>
                 /\ ret.status = "returned"
                 /\ ret.text # ""
                 /\ AllAttemptsFailed => ret.text \in FallbackTexts)
    /\ (gpc \in {"loop", "sleep"}) ~> (gpc = "done")

\* a call that met a transport error, a bad status and an undecodable answer
C5_Witness ==
    /\ gpc = "done"
    /\ Len(outcomes) = 3
    /\ {AttemptException(outcomes[i]) : i \in 1..3} =
           {"ConnectionError", "HTTPError", "JSONDecodeError"}
    /\ ret.status = "returned"
    /\ ret.origin = "Fallback"

\***************************************************************************
\* create_comments
\***************************************************************************
\* subreddit.new(limit=3)
CommentLimit == 3

Min(a, b) == IF a < b THEN a ELSE b

\* the newest posts of the subreddit, newest first
NewestPosts(n, limit) == [i \in 1..Min(limit, n) |-> n - i + 1]

\* if not post.saved, changed to pass every post
NotSaved_always(post, savedPosts) == TRUE

\* if not post.saved
NotSaved(post, savedPosts) == post \notin savedPosts

\* somebody submits a post to the subreddit
NewPost ==
    /\ nposts < MaxPosts
    /\ nposts' = nposts + 1
    /\ UNCHANGED <<saved, replyCount, lastReply>>
    /\ UNCHANGED <<genVars, fbVars, ccVars, runVars>>

\* entry of create_comments and the fetch of the listing, which can fail
CCStart ==
    /\ cpc \in {"idle", "returned"}
    /\ runs < MaxRuns
    /\ runs' = runs + 1
    /\ idx' = 1
    /\ attempted' = {}
    /\ \E fetched \in BOOLEAN :
           IF fetched
           THEN /\ batch' = NewestPosts(nposts, CommentLimit)
                /\ savedAtFetch' = {p \in saved : p > nposts - CommentLimit}
                /\ ccErrors' = 0
                /\ cpc' = "loop"
           ELSE /\ batch' = <<>>
                /\ savedAtFetch' = {}
                /\ ccErrors' = 1
                /\ cpc' = "returned"
    /\ UNCHANGED <<genVars, fbVars, redditVars, runVars>>

\* the end of the for loop
CCFinish ==
    /\ cpc = "loop"
    /\ idx > Len(batch)
    /\ cpc' = "returned"
    /\ UNCHANGED <<batch, savedAtFetch, idx, attempted, ccErrors, runs>>
    /\ UNCHANGED <<genVars, fbVars, redditVars, runVars>>

\* a post of the batch that is saved is passed over
CCSkipSaved ==
    /\ cpc = "loop"
    /\ idx <= Len(batch)
    /\ ~NotSaved(batch[idx], savedAtFetch)
    /\ idx' = idx + 1
    /\ UNCHANGED <<cpc, batch, savedAtFetch, attempted, ccErrors, runs>>
    /\ UNCHANGED <<genVars, fbVars, redditVars, runVars>>

\* comment = self.generate_content(prompt)
CCGenerate ==
    /\ cpc = "loop"
    /\ idx <= Len(batch)
    /\ NotSaved(batch[idx], savedAtFetch)
    /\ gpc = "idle"
    /\ GenEnter(CommentPrompt(Title(batch[idx])), DefaultRetries)
    /\ attempted' = attempted \cup {batch[idx]}
    /\ cpc' = "generate"
    /\ UNCHANGED <<batch, savedAtFetch, idx, ccErrors, runs>>
    /\ UNCHANGED <<fbVars, redditVars, runVars>>

\* the marker test and post.reply(comment), which can fail
CCReply ==
    /\ cpc = "generate"
    /\ gpc = "done"
    /\ LET post == batch[idx]
           comment == IF HasUnableMarker(ret.text)
                      THEN generate_fallback_content("comment", Title(post))
                      ELSE ret.text
       IN  \E replied \in BOOLEAN :
               IF ret.status = "returned" /\ replied
               THEN /\ replyCount' = [replyCount EXCEPT ![post] = @ + 1]
                    /\ lastReply' = [post |-> post, text |-> comment, origin |-> ret.origin]
                    /\ cpc' = "save"
                    /\ ccErrors' = ccErrors
               ELSE /\ ccErrors' = ccErrors + 1
                    /\ cpc' = "returned"
                    /\ UNCHANGED <<replyCount, lastReply>>
    /\ gpc' = "idle"
    /\ outcomes' = <<>>
    /\ events' = <<>>
    /\ ret' = NoRet
    /\ UNCHANGED <<prompt, retries, attempt>>
    /\ UNCHANGED <<nposts, saved, batch, savedAtFetch, idx, attempted, runs>>
    /\ UNCHANGED <<fbVars, runVars>>

\* post.save(), which can fail, the log entry and the rate-limit sleep
CCSave ==
    /\ cpc = "save"
    /\ \E savedOk \in BOOLEAN :
           IF savedOk
           THEN /\ saved' = saved \cup {batch[idx]}
                /\ idx' = idx + 1
                /\ cpc' = "loop"
                /\ ccErrors' = ccErrors
           ELSE /\ ccErrors' = ccErrors + 1
                /\ cpc' = "returned"
                /\ UNCHANGED <<saved, idx>>
    /\ UNCHANGED <<nposts, replyCount, lastReply, batch, savedAtFetch, attempted, runs>>
    /\ UNCHANGED <<genVars, fbVars, runVars>>

InitComments == GenInit /\ FbInit /\ RedditInit /\ CcInit /\ RunInit

NextComments ==
    \/ NewPost
    \/ CCStart
    \/ CCFinish
    \/ CCSkipSaved
    \/ CCGenerate
    \/ GenAttemptStep
    \/ GenSleepStep
    \/ GenFallbackStep
    \/ CCReply
    \/ CCSave

SpecComments == InitComments /\ [][NextComments]_vars

\***************************************************************************
\* Properties of create_comments
\***************************************************************************
\* C6: when create_comments has returned, every post of the fetched batch
\* that was not saved has been attempted, also when the reply or the save
\* of an earlier post of the batch failed.
C6_FailureIsolated ==
    cpc = "returned" =>
        \A i \in 1..Len(batch) :
            batch[i] \notin savedAtFetch => batch[i] \in attempted

\* C9: a reply made after every attempt of generate_content failed carries the
\* contextual comment for the title of the post, not the post template and
\* not the generic comment.
C9_ContextualFallbackReplied ==
    lastReply.origin = "Fallback" =>
        /\ lastReply.text = generate_contextual_comment(Title(lastReply.post))
        /\ lastReply.text # PostTemplate
        /\ lastReply.text # GenericComment

\* C10: a post is replied to only if it was not saved when it was fetched; a
\* post becomes saved only right after the reply to it succeeded; a saved
\* post stays saved and gets no further reply.
C10_NoSecondReply ==
    [][\A p \in 1..MaxPosts :
          /\ replyCount'[p] # replyCount[p] =>
                 /\ p \notin saved
                 /\ p \notin savedAtFetch
                 /\ replyCount'[p] = replyCount[p] + 1
          /\ (p \in saved' /\ p \notin saved) =>
                 /\ cpc = "save"
                 /\ lastReply.post = p
                 /\ replyCount[p] >= 1
          /\ p \in saved => (p \in saved' /\ replyCount'[p] = replyCount[p])]_vars

\* a second run has met a post that the first run replied to and saved, and
\* has passed it over
C10_Witness ==
    /\ runs = 2
    /\ cpc = "returned"
    /\ \E i \in 1..Len(batch) :
           /\ batch[i] \in savedAtFetch
           /\ replyCount[batch[i]] = 1
    /\ \E i \in 1..Len(batch) :
           /\ batch[i] \notin savedAtFetch
           /\ replyCount[batch[i]] >= 1

\***************************************************************************
\* Properties of generate_contextual_comment
\***************************************************************************
HasKeyword(word, post_title) == Contains(word, Lower(post_title))

KwLearn == <<"l","e","a","r","n">>
KwHelp == <<"h","e","l","p">>
KwProject == <<"p","r","o","j","e","c","t">>

\* C7: generate_contextual_comment returns the learn response when learn
\* occurs in the lower-cased title, else the help response when help occurs,
\* else the project response when project occurs, wherever they occur, and
\* the default response exactly when none of the three occurs.
C7_FirstKeywordWins ==
    (fbArgs.fn = "generate_contextual_comment" /\ fbText # "") =>
        LET t == fbArgs.post_title
        IN  /\ HasKeyword(KwLearn, t) => fbText = LearnResponse
            /\ (~HasKeyword(KwLearn, t) /\ HasKeyword(KwHelp, t)) => fbText = HelpResponse
            /\ (~HasKeyword(KwLearn, t) /\ ~HasKeyword(KwHelp, t) /\ HasKeyword(KwProject, t))
                   => fbText = ProjectResponse
            /\ (fbText = DefaultResponse) <=>
                   (~HasKeyword(KwLearn, t) /\ ~HasKeyword(KwHelp, t) /\ ~HasKeyword(KwProject, t))

\* a title in which project comes before help, in capitals, got the help response
C7_Witness ==
    /\ fbArgs.fn = "generate_contextual_comment"
    /\ fbArgs.post_title = <<"p","r","o","j","e","c","t"," ","H","E","L","P">>
    /\ fbText = HelpResponse

\***************************************************************************
\* run: the main loop
\***************************************************************************
\* time.sleep(60)
PollInterval == 60
\* (current_time - last_log_time).seconds >= 300
HeartbeatPeriod == 300
SecondsPerDay == 86400

\* what a call made in the loop can raise: an error of the scheduler or of a
\* scheduled job, or the interrupt of the user
LoopRaises == {"none", "Exception", "KeyboardInterrupt"}
SleepRaises == {"none", "KeyboardInterrupt"}

\* the except clauses of the loop without the clause for Exception
ExceptClause_interrupt_only(e) ==
    IF e = "KeyboardInterrupt" THEN "break" ELSE "propagate"

\* the except clauses of the loop
ExceptClause(e) ==
    IF e = "KeyboardInterrupt" THEN "break"
    ELSE IF e = "Exception" THEN "log_and_sleep"
    ELSE "propagate"

\* timedelta.seconds of the difference of two times
DeltaSeconds(later, earlier) == (later - earlier) % SecondsPerDay

\* schedule.run_pending(); the pending jobs take some time
RunPending ==
    /\ rpc = "poll"
    /\ clock < MaxIterations * PollInterval
    /\ \E e \in LoopRaises, took \in {0, PollInterval} :
           /\ clock' = clock + took
           /\ IF e = "none"
              THEN rpc' = "heartbeat" /\ pending' = pending
              ELSE rpc' = "handler" /\ pending' = e
    /\ UNCHANGED <<last_log_time, loopErrors, heartbeats, exitCause>>
    /\ UNCHANGED <<genVars, fbVars, redditVars, ccVars>>

\* the status entry every five minutes
Heartbeat ==
    /\ rpc = "heartbeat"
    /\ IF DeltaSeconds(clock, last_log_time) >= HeartbeatPeriod
       THEN heartbeats' = heartbeats + 1 /\ last_log_time' = clock
       ELSE UNCHANGED <<heartbeats, last_log_time>>
    /\ rpc' = "sleep"
    /\ UNCHANGED <<clock, pending, loopErrors, exitCause>>
    /\ UNCHANGED <<genVars, fbVars, redditVars, ccVars>>

\* time.sleep(60) at the end of the try block
LoopSleep ==
    /\ rpc = "sleep"
    /\ \E e \in SleepRaises :
           IF e = "none"
           THEN /\ clock' = clock + PollInterval
                /\ rpc' = "poll"
                /\ pending' = pending
           ELSE /\ clock' = clock
                /\ rpc' = "handler"
                /\ pending' = e
    /\ UNCHANGED <<last_log_time, loopErrors, heartbeats, exitCause>>
    /\ UNCHANGED <<genVars, fbVars, redditVars, ccVars>>

\* the except clause that matches the exception raised in the try block
Handler ==
    /\ rpc = "handler"
    /\ LET clause == ExceptClause(pending)
       IN  IF clause = "log_and_sleep"
           THEN /\ loopErrors' = loopErrors + 1
                /\ rpc' = "error_sleep"
                /\ exitCause' = exitCause
           ELSE /\ loopErrors' = loopErrors
                /\ rpc' = "exited"
                /\ exitCause' = pending
    /\ pending' = "none"
    /\ UNCHANGED <<clock, last_log_time, heartbeats>>
    /\ UNCHANGED <<genVars, fbVars, redditVars, ccVars>>

\* time.sleep(60) in the except clause, outside of the try block
ErrorSleep ==
    /\ rpc = "error_sleep"
    /\ \E e \in SleepRaises :
           IF e = "none"
           THEN /\ clock' = clock + PollInterval
                /\ rpc' = "poll"
                /\ exitCause' = exitCause
           ELSE /\ clock' = clock
                /\ rpc' = "exited"
                /\ exitCause' = e
    /\ UNCHANGED <<last_log_time, pending, loopErrors, heartbeats>>
    /\ UNCHANGED <<genVars, fbVars, redditVars, ccVars>>

InitRun == GenInit /\ FbInit /\ RedditInit /\ CcInit /\ RunInit

NextRun ==
    \/ RunPending
    \/ Heartbeat
    \/ LoopSleep
    \/ Handler
    \/ ErrorSleep

SpecRun == InitRun /\ [][NextRun]_vars

\* C8: an error raised in an iteration of the main loop is logged, the loop
\* then sleeps and goes back to polling; the loop is left only on a keyboard
\* interrupt.
C8_LoopSurvivesErrors ==
    [][/\ (rpc = "poll" /\ pending' = "Exception") => rpc' = "handler"
       /\ (rpc = "handler" /\ pending = "Exception") =>
              (rpc' = "error_sleep" /\ loopErrors' = loopErrors + 1)
       /\ (rpc = "error_sleep" /\ rpc' # "exited") =>
              (rpc' = "poll" /\ clock' = clock + PollInterval)
       /\ (rpc' = "exited" /\ rpc # "exited") =>
              exitCause' = "KeyboardInterrupt"]_vars

\* the loop polls again after two errors were logged
C8_Witness ==
    /\ loopErrors = 2
    /\ rpc = "poll"
    /\ exitCause = "none"

====
